---------------------------- MODULE Spec2Model ----------------------------
(***************************************************************************)
(* The bijection! macro of src/src/lib.rs as a rewriting system.           *)
(*                                                                         *)
(* A macro_rules! macro is an ordered list of rules.  An invocation is a   *)
(* sequence of token trees; the rules are tried top to bottom and the      *)
(* first one whose matcher accepts the whole sequence is transcribed.  A   *)
(* rule either re-invokes the macro on new tokens (the internal `@` rules) *)
(* or produces the final expansion: the two From impls or a               *)
(* compile_error!.  A fragment matcher ($x:expr, $x:block, ...) is only    *)
(* entered when the next token can begin such a fragment; once entered,    *)
(* the host parser must succeed: its failure is a compile error of its     *)
(* own and no later rule is tried (lib.rs:314 notes this for `block`).     *)
(*                                                                         *)
(* Shapes (patterns / expressions) are opaque single tokens: the literals  *)
(* "0", "1", "2" and the binding "x", standing for Foo(0), .., Foo(x) on   *)
(* one side and Bar(0), .., Bar(x) on the other, as in                     *)
(* tests::unreachable_patterns. Types are the single tokens "Foo", "Bar".  *)
(***************************************************************************)
EXTENDS Integers, Sequences, FiniteSets, TLC

VARIABLES input, call, out, steps

vars == <<input, call, out, steps>>

-----------------------------------------------------------------------------
(* Bounds of the model. *)

\* Most clauses in a declaration block.
MaxClauses == 3

\* Longest raw invocation enumerated over the top-level token alphabet.
MaxTopLen == 5

-----------------------------------------------------------------------------
(* Token trees. A leaf has an empty body; a group is delimited ("{}", "()")*)
(* or is an already parsed fragment substituted by a transcription         *)
(* ("ty", "pat_param", "expr").                                            *)

Tok(s) == [d |-> s, b |-> <<>>]

Grp(d, b) == [d |-> d, b |-> b]

Brace(b) == Grp("{}", b)

Paren(b) == Grp("()", b)

Nt(kind, b) == Grp(kind, b)

Comma == Tok(",")

FatArrow == Tok("=>")

EqTok == Tok("=")

OrTok == Tok("|")

At == Tok("@")

\* The literal shapes, which are also the values of the two converted types.
Lits == {"0", "1", "2"}

\* All opaque shapes: a literal or the binding x.
Atoms == Lits \cup {"x"}

TypeIdents == {"Foo", "Bar"}

IsAtom(t) == t.b = <<>> /\ t.d \in Atoms

IsBrace(t) == t.d = "{}"

IsParen(t) == t.d = "()"

-----------------------------------------------------------------------------
(* Fragment parsers.  Each reports r = "ok" with the position after the    *)
(* fragment, "no" when the token at i cannot begin the fragment (the rule  *)
(* does not match and the next rule is tried), or "hard" when the host     *)
(* parser began the fragment and failed (the expansion is aborted).        *)

No == [r |-> "no", end |-> 0]

Hard == [r |-> "hard", end |-> 0]

Ok(j) == [r |-> "ok", end |-> j]

\* $x:ty : a type identifier, or a type fragment substituted earlier.
CanBeginTy(t) == t.d \in TypeIdents \cup {"ty"}

TyParse(ts, i) ==
  IF i <= Len(ts) /\ CanBeginTy(ts[i]) THEN Ok(i + 1) ELSE No

\* A pattern with top-level alternation: atom (| atom)*. This is what the
\* `pat` fragment would accept; the macro uses `pat_param`.
RECURSIVE PatWithOrEnd(_, _)
PatWithOrEnd(ts, i) ==
  IF i + 2 <= Len(ts) /\ ts[i + 1] = OrTok /\ IsAtom(ts[i + 2])
  THEN PatWithOrEnd(ts, i + 2)
  ELSE i + 1

PatParseWithOr(ts, i) ==
  IF i <= Len(ts) /\ IsAtom(ts[i]) THEN Ok(PatWithOrEnd(ts, i)) ELSE No

\* $x:pat_param : one shape; a top-level `|` is not part of it.
PatParamParse(ts, i) ==
  IF i <= Len(ts) /\ IsAtom(ts[i]) THEN Ok(i + 1) ELSE No

\* The host expression grammar over the token alphabet: shape ((`|` or `=`)
\* shape)*, i.e. bit-or and assignment expressions over shapes. ExprEnd is
\* the position after the expression that starts with the shape at i, or 0
\* when an operator is not followed by an operand.
RECURSIVE ExprEnd(_, _)
ExprEnd(ts, i) ==
  IF i + 1 <= Len(ts) /\ ts[i + 1] \in {OrTok, EqTok}
  THEN IF i + 2 <= Len(ts) /\ IsAtom(ts[i + 2])
       THEN ExprEnd(ts, i + 2)
       ELSE 0
  ELSE i + 1

\* $x:expr
ExprParse(ts, i) ==
  IF i <= Len(ts) /\ IsAtom(ts[i])
  THEN IF ExprEnd(ts, i) = 0 THEN Hard ELSE Ok(ExprEnd(ts, i))
  ELSE No

\* A brace group parses as a block when it is empty or holds one expression.
BlockOk(b) == b = <<>> \/ (IsAtom(b[1]) /\ ExprEnd(b, 1) = Len(b) + 1)

\* $x:block
BlockParse(ts, i) ==
  IF i <= Len(ts) /\ IsBrace(ts[i])
  THEN IF BlockOk(ts[i].b) THEN Ok(i + 1) ELSE Hard
  ELSE No

-----------------------------------------------------------------------------
(* Expansion results. *)

Pending ==
  [kind |-> "pending", rule |-> "", msg |-> "", frag |-> <<>>,
   tys |-> <<>>, fwd |-> <<>>, bwd |-> <<>>]

\* impl From<$first_ty> for $second_ty { match value { $($first_done)* } }
\* impl From<$second_ty> for $first_ty { match value { $($second_done)* } }
Impls(tys, first_done, second_done) ==
  [kind |-> "impls", rule |-> "FinalConstruction", msg |-> "", frag |-> <<>>,
   tys |-> tys, fwd |-> first_done, bwd |-> second_done]

\* compile_error!(msg) or compile_error!(concat!(msg, stringify!(frag), ..)):
\* frag is the token sequence quoted in the message, <<>> when none is.
CompileError(rule, msg, frag) ==
  [kind |-> "compile_error", rule |-> rule, msg |-> msg, frag |-> frag,
   tys |-> <<>>, fwd |-> <<>>, bwd |-> <<>>]

\* The host parser's own error, raised inside a fragment of `rule`.
HostParseError(rule) ==
  [kind |-> "parse_error", rule |-> rule, msg |-> "host parser error",
   frag |-> <<>>, tys |-> <<>>, fwd |-> <<>>, bwd |-> <<>>]

NoMatch == [r |-> "no"]

HardFail == [r |-> "hard"]

\* A type fragment is substituted as one already parsed token.
AsTy(t) == IF t.d = "ty" THEN t ELSE Nt("ty", <<t>>)

-----------------------------------------------------------------------------
(* The internal rules (first token `@`). *)

\* ($first_ty:ty, $second_ty:ty)
TypesOk(p) ==
  Len(p) = 3 /\ CanBeginTy(p[1]) /\ p[2] = Comma /\ CanBeginTy(p[3])

\* @ ($first_ty:ty, $second_ty:ty) { $($first_done:tt)* } { $($second_done:tt)* }
InternalHead(ts) ==
  /\ Len(ts) >= 4
  /\ ts[1] = At
  /\ IsParen(ts[2]) /\ TypesOk(ts[2].b)
  /\ IsBrace(ts[3])
  /\ IsBrace(ts[4])

\* Final construction of the From impls: ... () ()
FinalConstructionMatch(ts) ==
  IF InternalHead(ts) /\ Len(ts) = 6 /\ ts[5] = Paren(<<>>) /\ ts[6] = Paren(<<>>)
  THEN [r |-> "match"]
  ELSE NoMatch

FinalConstructionExpansion(ts) ==
  [call |-> ts,
   out |-> Impls(<<ts[2].b[1], ts[2].b[3]>>, ts[3].b, ts[4].b)]

\* ($first_pat:pat_param => $first_expr:expr , $($first_rest:tt)*), or
\* ($first_pat:pat_param => $first_expr:expr) when trailing is FALSE.
FirstWalk(s, trailing) ==
  LET p == PatParamParse(s, 1) IN
  IF p.r # "ok" THEN [r |-> p.r]
  ELSE IF ~(p.end <= Len(s) /\ s[p.end] = FatArrow) THEN NoMatch
  ELSE LET e == ExprParse(s, p.end + 1) IN
       IF e.r # "ok" THEN [r |-> e.r]
       ELSE IF trailing
            THEN IF e.end <= Len(s) /\ s[e.end] = Comma
                 THEN [r |-> "match",
                       pat |-> SubSeq(s, 1, p.end - 1),
                       expr |-> SubSeq(s, p.end + 1, e.end - 1),
                       rest |-> SubSeq(s, e.end + 1, Len(s))]
                 ELSE NoMatch
            ELSE IF e.end = Len(s) + 1
                 THEN [r |-> "match",
                       pat |-> SubSeq(s, 1, p.end - 1),
                       expr |-> SubSeq(s, p.end + 1, e.end - 1),
                       rest |-> <<>>]
                 ELSE NoMatch

\* ($second_expr:expr => $second_pat:pat_param , $($second_rest:tt)*), or
\* ($second_expr:expr => $second_pat:pat_param) when trailing is FALSE.
SecondWalk(s, trailing) ==
  LET e == ExprParse(s, 1) IN
  IF e.r # "ok" THEN [r |-> e.r]
  ELSE IF ~(e.end <= Len(s) /\ s[e.end] = FatArrow) THEN NoMatch
  ELSE LET p == PatParamParse(s, e.end + 1) IN
       IF p.r # "ok" THEN [r |-> p.r]
       ELSE IF trailing
            THEN IF p.end <= Len(s) /\ s[p.end] = Comma
                 THEN [r |-> "match",
                       expr |-> SubSeq(s, 1, e.end - 1),
                       pat |-> SubSeq(s, e.end + 1, p.end - 1),
                       rest |-> SubSeq(s, p.end + 1, Len(s))]
                 ELSE NoMatch
            ELSE IF p.end = Len(s) + 1
                 THEN [r |-> "match",
                       expr |-> SubSeq(s, 1, e.end - 1),
                       pat |-> SubSeq(s, e.end + 1, p.end - 1),
                       rest |-> <<>>]
                 ELSE NoMatch

\* The matcher of both normalize rules, read left to right: the head, the
\* first view under FirstWalk, then the second view under SecondWalk.
NormalizeMatch(ts, trailing) ==
  IF ~(InternalHead(ts) /\ Len(ts) >= 5 /\ IsParen(ts[5])) THEN NoMatch
  ELSE LET w1 == FirstWalk(ts[5].b, trailing) IN
       IF w1.r # "match" THEN [r |-> w1.r]
       ELSE IF ~(Len(ts) >= 6 /\ IsParen(ts[6])) THEN NoMatch
       ELSE LET w2 == SecondWalk(ts[6].b, trailing) IN
            IF w2.r # "match" THEN [r |-> w2.r]
            ELSE IF Len(ts) = 6
                 THEN [r |-> "match", first |-> w1, second |-> w2]
                 ELSE NoMatch

\* One arm of a generated match: $pat => $expr,
Arm(pat, expr) == <<Nt("pat_param", pat), FatArrow, Nt("expr", expr), Comma>>

\* The new forward arm put in front of the arms accumulated so far.
FirstDonePrepend(ts, m) == Arm(m.first.pat, m.first.expr) \o ts[3].b

\* { $($first_done)* $first_pat => $first_expr, }
FirstDone(ts, m) == ts[3].b \o Arm(m.first.pat, m.first.expr)

\* The backward arm written with the first walk's bindings (not swapped).
SecondDoneFromFirstWalk(ts, m) == ts[4].b \o Arm(m.first.pat, m.first.expr)

\* { $($second_done)* $second_pat => $second_expr, }
SecondDone(ts, m) == ts[4].b \o Arm(m.second.pat, m.second.expr)

\* ($($first_rest)*)
FirstRest(ts, m) == m.first.rest

\* The second view passed on as it was, its clause not removed.
SecondRestStale(ts, m) == ts[6].b

\* ($($second_rest)*)
SecondRest(ts, m) == m.second.rest

\* The re-invocation both normalize rules transcribe.
NormalizeCall(ts, m) ==
  <<At, Paren(<<AsTy(ts[2].b[1]), Comma, AsTy(ts[2].b[3])>>),
    Brace(FirstDone(ts, m)),
    Brace(SecondDone(ts, m)),
    Paren(FirstRest(ts, m)),
    Paren(SecondRest(ts, m))>>

\* Normalize by munching rules sequentially (clause followed by a comma).
NormalizeCommaMatch(ts) == NormalizeMatch(ts, TRUE)

NormalizeCommaExpansion(ts) ==
  [call |-> NormalizeCall(ts, NormalizeCommaMatch(ts)), out |-> Pending]

\* The last clause matched only when a comma follows it.
NormalizeNoCommaNever(ts) == NoMatch

\* Normalization without the trailing comma.
NormalizeNoCommaMatch(ts) == NormalizeMatch(ts, FALSE)

NormalizeNoCommaExpansion(ts) ==
  [call |-> NormalizeCall(ts, NormalizeNoCommaMatch(ts)), out |-> Pending]

\* Invalid bijection match statements: ... ($($first_rest:tt)*) ($($second_rest:tt)*)
InvalidBijectionMatch(ts) ==
  IF InternalHead(ts) /\ Len(ts) = 6 /\ IsParen(ts[5]) /\ IsParen(ts[6])
  THEN [r |-> "match"]
  ELSE NoMatch

\* The arms accumulated before the malformed clause emitted all the same.
InvalidBijectionPartialEmission(ts) == FinalConstructionExpansion(ts)

InvalidBijectionExpansion(ts) ==
  [call |-> ts,
   out |-> CompileError("InvalidBijection", "Invalid bijection pattern:", ts[5].b)]

\* Fallback of the internal rules: (@ $($unknown:tt)*)
InternalFallbackMatch(ts) ==
  IF Len(ts) >= 1 /\ ts[1] = At THEN [r |-> "match"] ELSE NoMatch

InternalFallbackExpansion(ts) ==
  [call |-> ts,
   out |-> CompileError("InternalFallback", "Uncaught internal macro error", <<>>)]

-----------------------------------------------------------------------------
(* The entry rule and the rules for incorrect syntax. *)

\* Entry: ($first_ty:ty, $second_ty:ty, {$($bij:tt)*})
EntryMatch(ts) ==
  IF /\ TyParse(ts, 1).r = "ok"
     /\ Len(ts) = 5
     /\ ts[2] = Comma
     /\ TyParse(ts, 3).r = "ok"
     /\ ts[4] = Comma
     /\ IsBrace(ts[5])
  THEN [r |-> "match"]
  ELSE NoMatch

\* Double up the bijection statements for matching.
EntryExpansion(ts) ==
  [call |-> <<At, Paren(<<AsTy(ts[1]), Comma, AsTy(ts[3])>>),
              Brace(<<>>), Brace(<<>>), Paren(ts[5].b), Paren(ts[5].b)>>,
   out |-> Pending]

\* Ex: bijection!(Foo, Bar)            ($first_ty:ty, $second_ty:ty $(,)?)
MissingBlockMatch(ts) ==
  IF /\ TyParse(ts, 1).r = "ok"
     /\ Len(ts) >= 3
     /\ ts[2] = Comma
     /\ TyParse(ts, 3).r = "ok"
     /\ (Len(ts) = 3 \/ (Len(ts) = 4 /\ ts[4] = Comma))
  THEN [r |-> "match"]
  ELSE NoMatch

MissingBlockExpansion(ts) ==
  [call |-> ts,
   out |-> CompileError("MissingBlock",
             "Missing bijection declaration block after types", <<>>)]

\* Ex: bijection!(Foo, Bar {})         ($first_ty:ty, $second_ty:tt $bij:block)
BlockNoCommaMatch(ts) ==
  IF ~(TyParse(ts, 1).r = "ok" /\ Len(ts) >= 3 /\ ts[2] = Comma) THEN NoMatch
  ELSE LET k == BlockParse(ts, 4) IN
       IF k.r = "hard" THEN HardFail
       ELSE IF k.r = "ok" /\ Len(ts) = 4 THEN [r |-> "match"]
       ELSE NoMatch

BlockNoCommaExpansion(ts) ==
  [call |-> ts,
   out |-> CompileError("BlockNoComma",
             "Bijection declaration block must be separated with a comma", <<>>)]

\* The message of BlockExpected without the stringify!($($bij)+) part.
BlockExpectedNoFragment(ts) ==
  [call |-> ts,
   out |-> CompileError("BlockExpected",
             "Bijection declaration block expected (got: )", <<>>)]

\* Ex: bijection!(Foo, Bar, Foo::A => Bar::X)
\*                                     ($first_ty:ty, $second_ty:tt, $($bij:tt)+)
BlockExpectedMatch(ts) ==
  IF /\ TyParse(ts, 1).r = "ok"
     /\ Len(ts) >= 5
     /\ ts[2] = Comma
     /\ ts[4] = Comma
  THEN [r |-> "match"]
  ELSE NoMatch

BlockExpectedExpansion(ts) ==
  [call |-> ts,
   out |-> CompileError("BlockExpected",
             "Bijection declaration block expected (got: )",
             SubSeq(ts, 5, Len(ts)))]

\* Same as the above without the comma. Ex: bijection!(Foo, Bar Foo::A => Bar::X)
\*                                     ($first_ty:ty, $second_ty:tt $($bij:tt)+)
BlockExpectedNoCommaMatch(ts) ==
  IF /\ TyParse(ts, 1).r = "ok"
     /\ Len(ts) >= 4
     /\ ts[2] = Comma
  THEN [r |-> "match"]
  ELSE NoMatch

BlockExpectedNoCommaExpansion(ts) ==
  [call |-> ts,
   out |-> CompileError("BlockExpectedNoComma",
             "Bijection declaration block expected (got: )",
             SubSeq(ts, 4, Len(ts)))]

\* Ex: bijection!(Foo, { Foo::A => Bar::X })   ($first_ty:ty $(, $($bij:tt)*)?)
MissingSecondTypeMatch(ts) ==
  IF /\ TyParse(ts, 1).r = "ok"
     /\ (Len(ts) = 1 \/ ts[2] = Comma)
  THEN [r |-> "match"]
  ELSE NoMatch

MissingSecondTypeExpansion(ts) ==
  [call |-> ts,
   out |-> CompileError("MissingSecondType", "Missing second type", <<>>)]

\* Ex: bijection!(Foo { Foo::A => Bar::X })    ($first_ty:ty $bij:block)
SingleTypeBlockNoCommaMatch(ts) ==
  IF TyParse(ts, 1).r # "ok" THEN NoMatch
  ELSE LET k == BlockParse(ts, 2) IN
       IF k.r = "hard" THEN HardFail
       ELSE IF k.r = "ok" /\ Len(ts) = 2 THEN [r |-> "match"]
       ELSE NoMatch

SingleTypeBlockNoCommaExpansion(ts) ==
  [call |-> ts,
   out |-> CompileError("SingleTypeBlockNoComma",
             "Bijection declaration block must be separated with a comma", <<>>)]

\* Any sequence that starts with a brace group.
MissingTypesAnyLength(ts) ==
  IF Len(ts) >= 1 /\ IsBrace(ts[1]) THEN [r |-> "match"] ELSE NoMatch

\* Ex: bijection!({ Foo::A => Bar::X })        ({$($bij:tt)*})
MissingTypesMatch(ts) ==
  IF Len(ts) = 1 /\ IsBrace(ts[1]) THEN [r |-> "match"] ELSE NoMatch

MissingTypesExpansion(ts) ==
  [call |-> ts,
   out |-> CompileError("MissingTypes",
             "Missing types before declaration block", <<>>)]

\* Fallback, catches everything else   ($($unknown:tt)*)
FallbackMatch(ts) == [r |-> "match"]

FallbackExpansion(ts) ==
  [call |-> ts,
   out |-> CompileError("Fallback",
             "Expected: TypeA, TypeB, { /* bijection patterns */ }", <<>>)]

-----------------------------------------------------------------------------
(* Rule selection: the rules in the order the macro lists them. *)

\* The order with "Missing second type" tried before the two-type rules.
RuleOrderSecondTypeFirst ==
  <<"FinalConstruction", "Entry", "NormalizeComma", "NormalizeNoComma",
    "InvalidBijection", "InternalFallback", "MissingSecondType", "MissingBlock",
    "BlockNoComma", "BlockExpected", "BlockExpectedNoComma",
    "SingleTypeBlockNoComma", "MissingTypes", "Fallback">>

RuleOrder ==
  <<"FinalConstruction", "Entry", "NormalizeComma", "NormalizeNoComma",
    "InvalidBijection", "InternalFallback", "MissingBlock", "BlockNoComma",
    "BlockExpected", "BlockExpectedNoComma", "MissingSecondType",
    "SingleTypeBlockNoComma", "MissingTypes", "Fallback">>

RuleMatch(name, ts) ==
  CASE name = "FinalConstruction" -> FinalConstructionMatch(ts).r
    [] name = "Entry" -> EntryMatch(ts).r
    [] name = "NormalizeComma" -> NormalizeCommaMatch(ts).r
    [] name = "NormalizeNoComma" -> NormalizeNoCommaMatch(ts).r
    [] name = "InvalidBijection" -> InvalidBijectionMatch(ts).r
    [] name = "InternalFallback" -> InternalFallbackMatch(ts).r
    [] name = "MissingBlock" -> MissingBlockMatch(ts).r
    [] name = "BlockNoComma" -> BlockNoCommaMatch(ts).r
    [] name = "BlockExpected" -> BlockExpectedMatch(ts).r
    [] name = "BlockExpectedNoComma" -> BlockExpectedNoCommaMatch(ts).r
    [] name = "MissingSecondType" -> MissingSecondTypeMatch(ts).r
    [] name = "SingleTypeBlockNoComma" -> SingleTypeBlockNoCommaMatch(ts).r
    [] name = "MissingTypes" -> MissingTypesMatch(ts).r
    [] name = "Fallback" -> FallbackMatch(ts).r

RuleExpansion(name, ts) ==
  CASE name = "FinalConstruction" -> FinalConstructionExpansion(ts)
    [] name = "Entry" -> EntryExpansion(ts)
    [] name = "NormalizeComma" -> NormalizeCommaExpansion(ts)
    [] name = "NormalizeNoComma" -> NormalizeNoCommaExpansion(ts)
    [] name = "InvalidBijection" -> InvalidBijectionExpansion(ts)
    [] name = "InternalFallback" -> InternalFallbackExpansion(ts)
    [] name = "MissingBlock" -> MissingBlockExpansion(ts)
    [] name = "BlockNoComma" -> BlockNoCommaExpansion(ts)
    [] name = "BlockExpected" -> BlockExpectedExpansion(ts)
    [] name = "BlockExpectedNoComma" -> BlockExpectedNoCommaExpansion(ts)
    [] name = "MissingSecondType" -> MissingSecondTypeExpansion(ts)
    [] name = "SingleTypeBlockNoComma" -> SingleTypeBlockNoCommaExpansion(ts)
    [] name = "MissingTypes" -> MissingTypesExpansion(ts)
    [] name = "Fallback" -> FallbackExpansion(ts)

\* The index of the first rule, from i on, that matches ts or whose fragment
\* parser fails on it.
RECURSIVE FirstRule(_, _)
FirstRule(ts, i) ==
  IF RuleMatch(RuleOrder[i], ts) = "no" THEN FirstRule(ts, i + 1) ELSE i

Selected(ts) == RuleOrder[FirstRule(ts, 1)]

\* The rules whose first token is the internal marker.
InternalRules ==
  {"FinalConstruction", "NormalizeComma", "NormalizeNoComma",
   "InvalidBijection", "InternalFallback"}

\* One expansion step of the invocation ts.
Step(ts) ==
  LET name == Selected(ts) IN
  IF RuleMatch(name, ts) = "hard"
  THEN [call |-> ts, out |-> HostParseError(name)]
  ELSE RuleExpansion(name, ts)

\* The result of expanding ts to the end.
RECURSIVE Expand(_)
Expand(ts) ==
  LET s == Step(ts) IN
  IF s.out.kind # "pending" THEN s.out ELSE Expand(s.call)

-----------------------------------------------------------------------------
(* The invocations the model expands. *)

\* The well-formed clauses shape => shape whose two arms both compile: x is
\* bound on both sides or on neither.
WellFormedClauses ==
  { <<Tok(l), FatArrow, Tok(r)>> :
      <<l, r>> \in {p \in Atoms \X Atoms : (p[1] = "x") <=> (p[2] = "x")} }

\* The malformed clauses: an alternation on the left, an alternation on the
\* right, `=` for `=>`, a missing right shape, and a right shape that ends in
\* an operator.
MalformedClauses ==
  { <<Tok("0"), OrTok, Tok("1"), FatArrow, Tok("0")>>,
    <<Tok("0"), FatArrow, Tok("0"), OrTok, Tok("1")>>,
    <<Tok("0"), EqTok, Tok("0")>>,
    <<Tok("0"), FatArrow>>,
    <<Tok("0"), FatArrow, Tok("0"), OrTok>> }

\* The malformed clauses among two well-formed ones.
MixedClauses ==
  { <<Tok("0"), FatArrow, Tok("1")>>, <<Tok("x"), FatArrow, Tok("x")>> }
    \cup MalformedClauses

\* The clauses f[1..k] separated by commas.
RECURSIVE Join(_, _)
Join(f, k) ==
  IF k = 0 THEN <<>>
  ELSE IF k = 1 THEN f[1]
  ELSE Join(f, k - 1) \o <<Comma>> \o f[k]

\* The streams of at most n clauses of `forms`, with and without a trailing
\* comma.
Streams(forms, n) ==
  UNION { { Join(f, k) \o t : f \in [1..k -> forms], t \in {<<>>, <<Comma>>} }
          : k \in 0..n }

\* bijection!(Foo, Bar, { clauses })
DeclInputs ==
  { <<Tok("Foo"), Comma, Tok("Bar"), Comma, Brace(s)>> :
      s \in Streams(WellFormedClauses, MaxClauses)
              \cup Streams(MixedClauses, MaxClauses) }

\* Raw invocations over the top-level alphabet.
TopAlphabet ==
  { Tok("Foo"), Comma, At, FatArrow, Brace(<<>>),
    Brace(<<Tok("0"), FatArrow, Tok("0")>>) }

TopInputs == UNION { [1..k -> TopAlphabet] : k \in 0..MaxTopLen }

\* Raw invocations of the internal rules, whose two views need not agree.
InternalInputs ==
  { <<At, Paren(<<Tok("Foo"), Comma, Tok("Bar")>>), Brace(<<>>), Brace(<<>>),
      Paren(s1), Paren(s2)>> :
      s1 \in Streams(MixedClauses, 1), s2 \in Streams(MixedClauses, 1) }

Inputs == DeclInputs \cup TopInputs \cup InternalInputs

-----------------------------------------------------------------------------
(* The state machine: one action per rule of the macro. *)

Init ==
  /\ input \in Inputs
  /\ call = input
  /\ out = Pending
  /\ steps = 0

\* Each action is one rule: it fires when its matcher accepts the pending
\* invocation and no earlier rule does, and leaves its transcription. steps
\* counts the applications of the internal rules.
\* Final construction of the From impls.
FinalConstruction ==
  /\ out = Pending
  /\ FinalConstructionMatch(call).r = "match"
  /\ Selected(call) = "FinalConstruction"
  /\ call' = FinalConstructionExpansion(call).call
  /\ out' = FinalConstructionExpansion(call).out
  /\ steps' = steps + 1
  /\ UNCHANGED input

\* Entry.
Entry ==
  /\ out = Pending
  /\ EntryMatch(call).r = "match"
  /\ Selected(call) = "Entry"
  /\ call' = EntryExpansion(call).call
  /\ out' = EntryExpansion(call).out
  /\ steps' = steps
  /\ UNCHANGED input

\* Normalize by munching rules sequentially.
NormalizeComma ==
  /\ out = Pending
  /\ NormalizeCommaMatch(call).r = "match"
  /\ Selected(call) = "NormalizeComma"
  /\ call' = NormalizeCommaExpansion(call).call
  /\ out' = NormalizeCommaExpansion(call).out
  /\ steps' = steps + 1
  /\ UNCHANGED input

\* Normalization without the trailing comma.
NormalizeNoComma ==
  /\ out = Pending
  /\ NormalizeNoCommaMatch(call).r = "match"
  /\ Selected(call) = "NormalizeNoComma"
  /\ call' = NormalizeNoCommaExpansion(call).call
  /\ out' = NormalizeNoCommaExpansion(call).out
  /\ steps' = steps + 1
  /\ UNCHANGED input

\* Invalid bijection match statements (e.g. Foo::A = Bar::X).
InvalidBijection ==
  /\ out = Pending
  /\ InvalidBijectionMatch(call).r = "match"
  /\ Selected(call) = "InvalidBijection"
  /\ call' = InvalidBijectionExpansion(call).call
  /\ out' = InvalidBijectionExpansion(call).out
  /\ steps' = steps + 1
  /\ UNCHANGED input

\* Fallback of the internal rules.
InternalFallback ==
  /\ out = Pending
  /\ InternalFallbackMatch(call).r = "match"
  /\ Selected(call) = "InternalFallback"
  /\ call' = InternalFallbackExpansion(call).call
  /\ out' = InternalFallbackExpansion(call).out
  /\ steps' = steps + 1
  /\ UNCHANGED input

\* Ex: bijection!(Foo, Bar)
MissingBlock ==
  /\ out = Pending
  /\ MissingBlockMatch(call).r = "match"
  /\ Selected(call) = "MissingBlock"
  /\ call' = MissingBlockExpansion(call).call
  /\ out' = MissingBlockExpansion(call).out
  /\ steps' = steps
  /\ UNCHANGED input

\* Ex: bijection!(Foo, Bar {})
BlockNoComma ==
  /\ out = Pending
  /\ BlockNoCommaMatch(call).r = "match"
  /\ Selected(call) = "BlockNoComma"
  /\ call' = BlockNoCommaExpansion(call).call
  /\ out' = BlockNoCommaExpansion(call).out
  /\ steps' = steps
  /\ UNCHANGED input

\* Ex: bijection!(Foo, Bar, Foo::A => Bar::X)
BlockExpected ==
  /\ out = Pending
  /\ BlockExpectedMatch(call).r = "match"
  /\ Selected(call) = "BlockExpected"
  /\ call' = BlockExpectedExpansion(call).call
  /\ out' = BlockExpectedExpansion(call).out
  /\ steps' = steps
  /\ UNCHANGED input

\* Ex: bijection!(Foo, Bar Foo::A => Bar::X)
BlockExpectedNoComma ==
  /\ out = Pending
  /\ BlockExpectedNoCommaMatch(call).r = "match"
  /\ Selected(call) = "BlockExpectedNoComma"
  /\ call' = BlockExpectedNoCommaExpansion(call).call
  /\ out' = BlockExpectedNoCommaExpansion(call).out
  /\ steps' = steps
  /\ UNCHANGED input

\* Ex: bijection!(Foo, { Foo::A => Bar::X })
MissingSecondType ==
  /\ out = Pending
  /\ MissingSecondTypeMatch(call).r = "match"
  /\ Selected(call) = "MissingSecondType"
  /\ call' = MissingSecondTypeExpansion(call).call
  /\ out' = MissingSecondTypeExpansion(call).out
  /\ steps' = steps
  /\ UNCHANGED input

\* Ex: bijection!(Foo { Foo::A => Bar::X })
SingleTypeBlockNoComma ==
  /\ out = Pending
  /\ SingleTypeBlockNoCommaMatch(call).r = "match"
  /\ Selected(call) = "SingleTypeBlockNoComma"
  /\ call' = SingleTypeBlockNoCommaExpansion(call).call
  /\ out' = SingleTypeBlockNoCommaExpansion(call).out
  /\ steps' = steps
  /\ UNCHANGED input

\* Ex: bijection!({ Foo::A => Bar::X })
MissingTypes ==
  /\ out = Pending
  /\ MissingTypesMatch(call).r = "match"
  /\ Selected(call) = "MissingTypes"
  /\ call' = MissingTypesExpansion(call).call
  /\ out' = MissingTypesExpansion(call).out
  /\ steps' = steps
  /\ UNCHANGED input

\* Fallback, catches everything else.
Fallback ==
  /\ out = Pending
  /\ FallbackMatch(call).r = "match"
  /\ Selected(call) = "Fallback"
  /\ call' = FallbackExpansion(call).call
  /\ out' = FallbackExpansion(call).out
  /\ steps' = steps
  /\ UNCHANGED input

\* The first rule that does not simply fail to match has entered a fragment
\* the host parser cannot finish: the expansion ends with the parser's error.
FragmentParseError ==
  /\ out = Pending
  /\ RuleMatch(Selected(call), call) = "hard"
  /\ out' = HostParseError(Selected(call))
  /\ steps' = IF Selected(call) \in InternalRules THEN steps + 1 ELSE steps
  /\ UNCHANGED <<input, call>>

Next ==
  \/ FinalConstruction
  \/ Entry
  \/ NormalizeComma
  \/ NormalizeNoComma
  \/ InvalidBijection
  \/ InternalFallback
  \/ MissingBlock
  \/ BlockNoComma
  \/ BlockExpected
  \/ BlockExpectedNoComma
  \/ MissingSecondType
  \/ SingleTypeBlockNoComma
  \/ MissingTypes
  \/ Fallback
  \/ FragmentParseError

Spec == Init /\ [][Next]_vars

-----------------------------------------------------------------------------
(* The generated conversions: match value { arms }, first matching arm wins.*)

\* The arms of a generated match, read off the tokens `pat => expr,`.
ArmsOf(done) ==
  [i \in 1..(Len(done) \div 4) |-> [pat |-> done[4 * i - 3].b, expr |-> done[4 * i - 1].b]]

\* A pattern matches a value when it is that literal or the binding x.
ShapeMatches(pat, v) == pat = <<Tok(v)>> \/ pat = <<Tok("x")>>

\* The value an arm's expression builds: the literal, or the value bound by
\* x in the arm's pattern. An x the pattern does not bind and an expression
\* of several tokens are not values of the converted types.
Build(arm, v) ==
  IF Len(arm.expr) # 1 THEN "compound"
  ELSE IF arm.expr[1].d # "x" THEN arm.expr[1].d
  ELSE IF arm.pat = <<Tok("x")>> THEN v
  ELSE "unbound"

Matching(arms, v) == {i \in DOMAIN arms : ShapeMatches(arms[i].pat, v)}

Max(S) == CHOOSE i \in S : \A j \in S : j <= i

Min(S) == CHOOSE i \in S : \A j \in S : i <= j

\* The last matching arm taken instead of the first.
DispatchLastMatch(arms, v) ==
  IF Matching(arms, v) = {} THEN "unmatched"
  ELSE Build(arms[Max(Matching(arms, v))], v)

\* match value { arms }
Dispatch(arms, v) ==
  IF Matching(arms, v) = {} THEN "unmatched"
  ELSE Build(arms[Min(Matching(arms, v))], v)

\* impl From<$first_ty> for $second_ty
Forward(v) == Dispatch(ArmsOf(out.fwd), v)

\* impl From<$second_ty> for $first_ty
Backward(v) == Dispatch(ArmsOf(out.bwd), v)

-----------------------------------------------------------------------------
(* The vocabulary of the properties, read off the authored input alone. *)

Done == out.kind # "pending"

\* TypeA, TypeB, { clauses }
IsDeclaration(ts) ==
  /\ Len(ts) = 5
  /\ ts[1].d \in TypeIdents /\ ts[2] = Comma
  /\ ts[3].d \in TypeIdents /\ ts[4] = Comma
  /\ IsBrace(ts[5])

\* The authored clause stream of a declaration.
Bij == input[5].b

\* The number of clauses of a stream of whole clauses: each takes three
\* tokens and a comma, the last comma being optional.
NumWF(s) == (Len(s) + 1) \div 4

\* s is L_1 => R_1, ..., L_n => R_n with an optional trailing comma.
WellFormedStream(s) ==
  /\ Len(s) % 4 \in {0, 3}
  /\ \A i \in 1..NumWF(s) :
       /\ IsAtom(s[4 * i - 3])
       /\ s[4 * i - 2] = FatArrow
       /\ IsAtom(s[4 * i - 1])
       /\ 4 * i <= Len(s) => s[4 * i] = Comma

ClauseL(s, i) == s[4 * i - 3].d

ClauseR(s, i) == s[4 * i - 1].d

\* The arm with matcher m and constructor c.
ArmFor(m, c) == [pat |-> <<Tok(m)>>, expr |-> <<Tok(c)>>]

\* The value the constructor shape c builds under the bindings of matcher m.
Built(m, c, v) ==
  IF c # "x" THEN c ELSE IF m = "x" THEN v ELSE "unbound"

Matches(shape, v) == shape = v \/ shape = "x"

IsDiagnostic(o) == o.kind \in {"compile_error", "parse_error"}

-----------------------------------------------------------------------------
(* C1 *)

\* C1: for a declaration whose block holds n >= 0 well-formed clauses
\* L_1 => R_1, ..., L_n => R_n, the expansion ends in the two From impls
\* (no diagnostic); the forward match has exactly the arms L_i => R_i and the
\* backward match exactly the arms R_i => L_i, both in authored order.
C1_ArmsInAuthoredOrder ==
  (Done /\ IsDeclaration(input) /\ WellFormedStream(Bij)) =>
    /\ out.kind = "impls"
    /\ Len(out.fwd) = 4 * NumWF(Bij)
    /\ Len(out.bwd) = 4 * NumWF(Bij)
    /\ ArmsOf(out.fwd) =
         [i \in 1..NumWF(Bij) |-> ArmFor(ClauseL(Bij, i), ClauseR(Bij, i))]
    /\ ArmsOf(out.bwd) =
         [i \in 1..NumWF(Bij) |-> ArmFor(ClauseR(Bij, i), ClauseL(Bij, i))]

\* A finished declaration of at least two different well-formed clauses.
C1_Witness ==
  /\ Done /\ IsDeclaration(input) /\ WellFormedStream(Bij)
  /\ NumWF(Bij) >= 2
  /\ ClauseL(Bij, 1) # ClauseL(Bij, 2)
  /\ ClauseL(Bij, 1) # ClauseR(Bij, 1)
  /\ out.kind = "impls"

-----------------------------------------------------------------------------
(* C2 *)

\* The clause set is a genuine bijection: every value of side A is matched
\* by exactly one left shape, every value of side B by exactly one right
\* shape, and each clause binds x on both sides or on neither.
GenuineBijection(s) ==
  /\ WellFormedStream(s)
  /\ \A i \in 1..NumWF(s) : (ClauseL(s, i) = "x") <=> (ClauseR(s, i) = "x")
  /\ \A v \in Lits :
       /\ Cardinality({i \in 1..NumWF(s) : Matches(ClauseL(s, i), v)}) = 1
       /\ Cardinality({i \in 1..NumWF(s) : Matches(ClauseR(s, i), v)}) = 1

\* C2: when the authored clauses are a genuine bijection, the generated
\* conversions are inverse to each other: backward(forward(a)) = a for every
\* value a of side A and forward(backward(b)) = b for every value b of side B.
C2_RoundTrip ==
  (Done /\ IsDeclaration(input) /\ GenuineBijection(Bij)) =>
    /\ out.kind = "impls"
    /\ \A v \in Lits :
         /\ Forward(v) \in Lits /\ Backward(Forward(v)) = v
         /\ Backward(v) \in Lits /\ Forward(Backward(v)) = v

\* A finished genuine bijection that is not the identity.
C2_Witness ==
  /\ Done /\ IsDeclaration(input) /\ GenuineBijection(Bij)
  /\ out.kind = "impls"
  /\ \E v \in Lits : Forward(v) # v

-----------------------------------------------------------------------------
(* C3 *)

\* C3 as stated: whenever clause i is authored before clause j and a value
\* matches the left shapes of both, forward conversion yields the value built
\* from R_i; likewise backward conversion over the right shapes yields the
\* value built from L_i.
C3_EarlierOfAnyPairWins ==
  (Done /\ IsDeclaration(input) /\ WellFormedStream(Bij) /\ out.kind = "impls") =>
    \A v \in Lits : \A i, j \in 1..NumWF(Bij) :
      /\ (i < j /\ Matches(ClauseL(Bij, i), v) /\ Matches(ClauseL(Bij, j), v))
           => Forward(v) = Built(ClauseL(Bij, i), ClauseR(Bij, i), v)
      /\ (i < j /\ Matches(ClauseR(Bij, i), v) /\ Matches(ClauseR(Bij, j), v))
           => Backward(v) = Built(ClauseR(Bij, i), ClauseL(Bij, i), v)

\* C3 amended: when clause i is authored before clause j, a value matches the
\* left shapes of both and no clause authored before i matches it, forward
\* conversion yields the value built from R_i; symmetrically for backward
\* conversion over the right shapes.
C3_FirstMatchWins ==
  (Done /\ IsDeclaration(input) /\ WellFormedStream(Bij) /\ out.kind = "impls") =>
    \A v \in Lits : \A i, j \in 1..NumWF(Bij) :
      /\ ( /\ i < j /\ Matches(ClauseL(Bij, i), v) /\ Matches(ClauseL(Bij, j), v)
           /\ \A k \in 1..(i - 1) : ~Matches(ClauseL(Bij, k), v) )
           => Forward(v) = Built(ClauseL(Bij, i), ClauseR(Bij, i), v)
      /\ ( /\ i < j /\ Matches(ClauseR(Bij, i), v) /\ Matches(ClauseR(Bij, j), v)
           /\ \A k \in 1..(i - 1) : ~Matches(ClauseR(Bij, k), v) )
           => Backward(v) = Built(ClauseR(Bij, i), ClauseL(Bij, i), v)

\* Two overlapping clauses that build different values, converted both ways.
C3_Witness ==
  /\ Done /\ IsDeclaration(input) /\ WellFormedStream(Bij) /\ out.kind = "impls"
  /\ NumWF(Bij) >= 2
  /\ \E v \in Lits :
       /\ Matches(ClauseL(Bij, 1), v) /\ Matches(ClauseL(Bij, 2), v)
       /\ Built(ClauseL(Bij, 1), ClauseR(Bij, 1), v)
            # Built(ClauseL(Bij, 2), ClauseR(Bij, 2), v)
       /\ Forward(v) = Built(ClauseL(Bij, 1), ClauseR(Bij, 1), v)
  /\ \E v \in Lits :
       /\ Matches(ClauseR(Bij, 1), v) /\ Matches(ClauseR(Bij, 2), v)
       /\ Built(ClauseR(Bij, 1), ClauseL(Bij, 1), v)
            # Built(ClauseR(Bij, 2), ClauseL(Bij, 2), v)
       /\ Backward(v) = Built(ClauseR(Bij, 1), ClauseL(Bij, 1), v)

-----------------------------------------------------------------------------
(* C4 *)

\* Some clause of s has an alternation S1 | S2 among its top-level tokens.
HasAlternation(s) ==
  \E i \in 2..(Len(s) - 1) :
    s[i] = OrTok /\ IsAtom(s[i - 1]) /\ IsAtom(s[i + 1])

\* C4: a declaration with an alternation S1 | S2 on the left or on the right
\* of any of its clauses ends in a diagnostic, and no conversion is emitted.
C4_AlternationRejected ==
  (Done /\ IsDeclaration(input) /\ HasAlternation(Bij)) =>
    /\ IsDiagnostic(out)
    /\ out.fwd = <<>> /\ out.bwd = <<>>

\* A finished declaration whose alternation comes after a well-formed clause
\* and is what the diagnostic reports.
C4_Witness ==
  /\ Done /\ IsDeclaration(input) /\ HasAlternation(Bij)
  /\ steps >= 2
  /\ out.rule = "InvalidBijection"
  /\ HasAlternation(out.frag)

-----------------------------------------------------------------------------
(* C5 *)

\* What is left of a stream after its leading well-formed clauses, each with
\* its comma, are removed.
RECURSIVE Remainder(_)
Remainder(s) ==
  IF /\ Len(s) >= 4
     /\ IsAtom(s[1]) /\ s[2] = FatArrow /\ IsAtom(s[3]) /\ s[4] = Comma
  THEN Remainder(SubSeq(s, 5, Len(s)))
  ELSE s

\* The stream starts shape => shape and goes on with operators the last of
\* which has no operand: the host parser has begun an expression it cannot
\* finish.
UnfinishedExpression(s) ==
  /\ Len(s) >= 3
  /\ IsAtom(s[1]) /\ s[2] = FatArrow /\ IsAtom(s[3])
  /\ ExprEnd(s, 3) = 0

InvalidPatternDiagnostic(frag) ==
  CompileError("InvalidBijection", "Invalid bijection pattern:", frag)

-----------------------------------------------------------------------------
(* C6 *)

\* TypeA, TypeB
TwoTypesOnly(ts) ==
  Len(ts) = 3 /\ ts[1].d \in TypeIdents /\ ts[2] = Comma /\ ts[3].d \in TypeIdents

\* { ... }
BareBlock(ts) == Len(ts) = 1 /\ IsBrace(ts[1])

\* C6: two types and no block yield "Missing bijection declaration block
\* after types" (not "Missing second type", not the generic fallback); a bare
\* brace block yields "Missing types before declaration block".
C6_DiagnosticTargeting ==
  Done =>
    /\ TwoTypesOnly(input) =>
         out = CompileError("MissingBlock",
                 "Missing bijection declaration block after types", <<>>)
    /\ BareBlock(input) =>
         out = CompileError("MissingTypes",
                 "Missing types before declaration block", <<>>)

\* The invocation of two types and no block, expanded.
C6_Witness == Done /\ TwoTypesOnly(input) /\ out.rule = "MissingBlock"

-----------------------------------------------------------------------------
(* C7 *)

IsType(t) == t.d \in TypeIdents

\* The malformed shapes 1-7 of the diagnostic grammar.
Shape1(ts) == TwoTypesOnly(ts)

Shape2(ts) ==
  Len(ts) = 4 /\ IsType(ts[1]) /\ ts[2] = Comma /\ IsType(ts[3]) /\ IsBrace(ts[4])

Shape3(ts) ==
  /\ Len(ts) >= 5 /\ IsType(ts[1]) /\ ts[2] = Comma /\ IsType(ts[3])
  /\ ts[4] = Comma /\ ~(Len(ts) = 5 /\ IsBrace(ts[5]))

Shape4(ts) ==
  /\ Len(ts) >= 4 /\ IsType(ts[1]) /\ ts[2] = Comma /\ IsType(ts[3])
  /\ ts[4] # Comma

Shape5(ts) == Len(ts) >= 1 /\ IsType(ts[1]) /\ (Len(ts) = 1 \/ ts[2] = Comma)

Shape6(ts) == Len(ts) >= 2 /\ IsType(ts[1]) /\ IsBrace(ts[2])

Shape7(ts) == BareBlock(ts)

MalformedShape(ts) ==
  \/ Shape1(ts) \/ Shape2(ts) \/ Shape3(ts) \/ Shape4(ts)
  \/ Shape5(ts) \/ Shape6(ts) \/ Shape7(ts)

GenericFallback ==
  CompileError("Fallback",
    "Expected: TypeA, TypeB, { /* bijection patterns */ }", <<>>)

StartsWithAt(ts) == Len(ts) >= 1 /\ ts[1] = At

-----------------------------------------------------------------------------
(* C8 *)

BlockMustBeSeparated == "Bijection declaration block must be separated with a comma"

\* C8 as stated: the diagnostic of rule 3 (two types, a comma, then content
\* that is not one block) and the diagnostic of rule 6 (one type directly
\* followed by a block) both quote the supplied fragment.
C8_Rule3AndRule6QuoteFragment ==
  Done =>
    /\ (out.kind = "compile_error" /\ out.rule = "BlockExpected") =>
         out.frag = SubSeq(input, 5, Len(input)) /\ out.frag # <<>>
    /\ (out.kind = "compile_error" /\ out.rule = "SingleTypeBlockNoComma") =>
         out.frag = SubSeq(input, 2, Len(input)) /\ out.frag # <<>>

\* C8 amended: the diagnostic of rule 3 quotes the supplied fragment, all the
\* tokens after the second comma; the diagnostic of rule 6 is the fixed text
\* "Bijection declaration block must be separated with a comma" and quotes
\* nothing.
C8_OnlyRule3QuotesFragment ==
  Done =>
    /\ (out.kind = "compile_error" /\ out.rule = "BlockExpected") =>
         out.frag = SubSeq(input, 5, Len(input)) /\ out.frag # <<>>
    /\ (out.kind = "compile_error" /\ out.rule = "SingleTypeBlockNoComma") =>
         out.frag = <<>> /\ out.msg = BlockMustBeSeparated

\* Rule 3 answered an invocation whose content after the types is a clause.
C8_Witness ==
  /\ Done /\ out.kind = "compile_error" /\ out.rule = "BlockExpected"
  /\ Len(input) >= 5 /\ IsType(input[1]) /\ IsType(input[3])
  /\ out.frag = SubSeq(input, 5, Len(input))

-----------------------------------------------------------------------------
(* C9 *)

\* The stream with its trailing comma added when absent, removed when present.
ToggleTrailingComma(s) ==
  IF s[Len(s)] = Comma THEN SubSeq(s, 1, Len(s) - 1) ELSE s \o <<Comma>>

\* The declaration ts with the clause stream s in its block.
WithStream(ts, s) == <<ts[1], ts[2], ts[3], ts[4], Brace(s)>>

\* C9: a declaration of n >= 1 well-formed clauses expands to the same two
\* conversions, with exactly n forward and n backward arms, whether or not a
\* comma follows its last clause.
C9_TrailingCommaOptional ==
  (Done /\ IsDeclaration(input) /\ WellFormedStream(Bij) /\ NumWF(Bij) >= 1) =>
    /\ out.kind = "impls"
    /\ out = Expand(WithStream(input, ToggleTrailingComma(Bij)))
    /\ Len(ArmsOf(out.fwd)) = NumWF(Bij)
    /\ Len(ArmsOf(out.bwd)) = NumWF(Bij)
    /\ Len(out.fwd) = 4 * NumWF(Bij)
    /\ Len(out.bwd) = 4 * NumWF(Bij)

\* A finished declaration of several clauses with no comma after the last.
C9_Witness ==
  /\ Done /\ IsDeclaration(input) /\ WellFormedStream(Bij)
  /\ NumWF(Bij) >= 2
  /\ Bij[Len(Bij)] # Comma
  /\ out.kind = "impls"

-----------------------------------------------------------------------------
(* C10 *)

\* The stream after its first clause: what follows the first comma, nothing
\* when there is no comma.
RECURSIVE AfterFirstComma(_)
AfterFirstComma(s) ==
  IF s = <<>> THEN <<>>
  ELSE IF Head(s) = Comma THEN Tail(s)
  ELSE AfterFirstComma(Tail(s))

\* The stream after its first k clauses.
RECURSIVE DropClauses(_, _)
DropClauses(s, k) == IF k = 0 THEN s ELSE DropClauses(AfterFirstComma(s), k - 1)

\* The number of clauses of any stream.
RECURSIVE NumClauses(_)
NumClauses(s) == IF s = <<>> THEN 0 ELSE 1 + NumClauses(AfterFirstComma(s))

\* Some rule answers the pending invocation: its matcher accepts it, or has
\* entered a fragment the host parser then fails on. This is the enabling
\* condition of Next for a pending invocation.
SomeRuleApplies ==
  \E i \in DOMAIN RuleOrder : RuleMatch(RuleOrder[i], call) # "no"

\* C10: the expansion of a declaration always goes on until it is finished
\* and takes at most (number of clauses + 1) steps of normalization: after k
\* steps both remaining views equal the authored stream without its first k
\* clauses, and the last step ends in the two conversions when both views are
\* empty and in one diagnostic otherwise.
C10_NormalizationTerminates ==
  IsDeclaration(input) =>
    /\ Done \/ SomeRuleApplies
    /\ steps <= NumClauses(Bij) + 1
    /\ call # input =>
         LET k == Len(call[3].b) \div 4 IN
         /\ call[5] = call[6]
         /\ call[5].b = DropClauses(Bij, k)
         /\ Len(call[4].b) = Len(call[3].b)
         /\ steps = IF Done THEN k + 1 ELSE k
    /\ Done =>
         /\ out.kind = "impls" <=> (call[5].b = <<>> /\ call[6].b = <<>>)
         /\ out.kind # "impls" => IsDiagnostic(out)

\* A declaration of several clauses finished in the largest number of steps.
C10_Witness ==
  /\ Done /\ IsDeclaration(input)
  /\ NumClauses(Bij) >= 2
  /\ steps = NumClauses(Bij) + 1

=============================================================================
